---- MODULE Spec2Model ----
(***************************************************************************)
(* A model of godot-toml (src/src/godot_toml.rs): parse_toml reads a TOML  *)
(* file, populate_toml_dictionary walks the parsed table and builds a      *)
(* Godot Dictionary, encode_godot_types tokenizes string leaves that       *)
(* contain a parenthesis, and set_godot_type_to_dictionary decodes the     *)
(* token list into Godot value types.                                      *)
(*                                                                         *)
(* Strings are sequences of one-character strings, so that the tokenizer   *)
(* and the number parser work on characters as the code does.  A parsed    *)
(* f32 is the decimal it was parsed from, [m, e] meaning m * 10^(-e) with  *)
(* trailing zeros removed: within the digits the model writes, distinct    *)
(* decimals have distinct nearest f32 values.                              *)
(***************************************************************************)
EXTENDS Integers, Sequences, FiniteSets, TLC

\* ------------------------------------------------------------------------
\* Bounds of the inputs.
\* ------------------------------------------------------------------------

\* Nesting depth of the tables of an input document.
MaxDepth == 2

\* Greatest number of plain (number or word) arguments of a generated literal.
MaxFlatArgs == 5

\* Greatest number of nested vector arguments of a generated literal.
MaxNestedArgs == 4

\* ------------------------------------------------------------------------
\* Characters.
\* ------------------------------------------------------------------------

LowerLetters ==
    << "a","b","c","d","e","f","g","h","i","j","k","l","m",
       "n","o","p","q","r","s","t","u","v","w","x","y","z" >>

UpperLetters ==
    << "A","B","C","D","E","F","G","H","I","J","K","L","M",
       "N","O","P","Q","R","S","T","U","V","W","X","Y","Z" >>

DigitChars == << "0","1","2","3","4","5","6","7","8","9" >>

Range(f) == { f[x] : x \in DOMAIN f }

Letters == Range(LowerLetters) \cup Range(UpperLetters)

Digits == Range(DigitChars)

\* The value of a digit character.
DigitVal(c) == (CHOOSE k \in 1..10 : DigitChars[k] = c) - 1

\* The ASCII lower case of a character.
ToLowerChar(c) ==
    IF c \in Range(UpperLetters)
    THEN LowerLetters[CHOOSE k \in 1..26 : UpperLetters[k] = c]
    ELSE c

ToLower(s) == [k \in 1..Len(s) |-> ToLowerChar(s[k])]

\* str::contains for a one-character pattern.
Contains(s, c) == \E k \in 1..Len(s) : s[k] = c

\* str::trim: the string without its leading and trailing white space.
Trim(s) ==
    LET nonBlank == { k \in 1..Len(s) : s[k] # " " }
    IN  IF nonBlank = {} THEN << >>
        ELSE LET lo == CHOOSE k \in nonBlank : \A j \in nonBlank : k <= j
                 hi == CHOOSE k \in nonBlank : \A j \in nonBlank : k >= j
             IN  SubSeq(s, lo, hi)

\* ------------------------------------------------------------------------
\* The tokenizer's regular expression ((?:\/)?([a-zA-Z0-9\.]+)).
\* ------------------------------------------------------------------------

\* The character class [a-zA-Z0-9\.].
IsTypeChar(c) == c \in Letters \cup Digits \cup {"."}

\* A match can start at offset p (0-based): an optional slash, then at least
\* one character of the class.
MatchAt(s, p) ==
    /\ p < Len(s)
    /\ \/ IsTypeChar(s[p + 1])
       \/ /\ s[p + 1] = "/"
          /\ p + 1 < Len(s)
          /\ IsTypeChar(s[p + 2])

\* The offsets at or after `from` where a match starts.
MatchStarts(s, from) == { p \in from..(Len(s) - 1) : MatchAt(s, p) }

\* captures_from_pos(value, from) finds a match.
HasMatch(s, from) == MatchStarts(s, from) # {}

\* The start of the leftmost match at or after `from`.
MatchStart(s, from) ==
    CHOOSE p \in MatchStarts(s, from) : \A q \in MatchStarts(s, from) : p <= q

\* The end of the match starting at p: the class is matched greedily.
MatchEnd(s, p) ==
    LET first == IF s[p + 1] = "/" THEN p + 1 ELSE p
        stops == { q \in (first + 1)..Len(s) :
                     q = Len(s) \/ ~IsTypeChar(s[q + 1]) }
    IN  CHOOSE q \in stops : \A r \in stops : q <= r

\* Capture group 1 of the match starting at p: the slash, when present, and
\* the run of class characters.
MatchText(s, p) == SubSeq(s, p + 1, MatchEnd(s, p))

\* ------------------------------------------------------------------------
\* str::parse::<f32>.
\* ------------------------------------------------------------------------

RECURSIVE Pow10(_)
Pow10(n) == IF n = 0 THEN 1 ELSE 10 * Pow10(n - 1)

\* The natural number written by a sequence of digits.
RECURSIVE DigitsVal(_)
DigitsVal(ds) ==
    IF ds = << >> THEN 0
    ELSE 10 * DigitsVal(SubSeq(ds, 1, Len(ds) - 1)) + DigitVal(ds[Len(ds)])

AllDigits(s) == \A k \in 1..Len(s) : s[k] \in Digits

\* m * 10^(-e) without trailing zeros in the fraction.
RECURSIVE Num(_, _)
Num(m, e) ==
    IF e > 0 /\ m % 10 = 0 THEN Num(m \div 10, e - 1)
    ELSE [tag |-> "num", m |-> m, e |-> e]

ParseErr == [tag |-> "err", m |-> 0, e |-> 0]

Infinity(neg) == [tag |-> "inf", m |-> IF neg THEN -1 ELSE 1, e |-> 0]

NaN == [tag |-> "nan", m |-> 0, e |-> 0]

\* An unsigned decimal: digits, at most one '.', at least one digit, and an
\* optional exponent e<digits> or E<digits> (also signed).
ParseDecimal(s, neg) ==
    LET es    == { k \in 1..Len(s) : s[k] \in {"e", "E"} }
        epos  == IF es = {} THEN Len(s) + 1
                 ELSE CHOOSE k \in es : \A j \in es : k <= j
        mant  == SubSeq(s, 1, epos - 1)
        expo  == SubSeq(s, epos + 1, Len(s))
        eneg  == expo # << >> /\ expo[1] = "-"
        edig  == IF expo # << >> /\ expo[1] \in {"+", "-"} THEN Tail(expo) ELSE expo
        dots  == { k \in 1..Len(mant) : mant[k] = "." }
        dpos  == IF dots = {} THEN Len(mant) + 1 ELSE CHOOSE k \in dots : TRUE
        ip    == SubSeq(mant, 1, dpos - 1)
        fp    == SubSeq(mant, dpos + 1, Len(mant))
        sign  == IF neg THEN -1 ELSE 1
        x     == IF es = {} THEN 0 ELSE DigitsVal(edig)
        shift == IF eneg THEN Len(fp) + x ELSE Len(fp) - x
    IN  IF \/ Cardinality(dots) > 1
           \/ ~AllDigits(ip) \/ ~AllDigits(fp)
           \/ Len(ip) + Len(fp) = 0
           \/ (es # {} /\ (edig = << >> \/ ~AllDigits(edig)))
        THEN ParseErr
        ELSE IF shift >= 0
             THEN Num(sign * DigitsVal(ip \o fp), shift)
             ELSE Num(sign * DigitsVal(ip \o fp) * Pow10(0 - shift), 0)

\* f32::from_str: an optional sign, then inf, infinity or nan in any case, or
\* a decimal.
ParseF32(s) ==
    LET signed == s # << >> /\ s[1] \in {"+", "-"}
        neg    == s # << >> /\ s[1] = "-"
        body   == IF signed THEN Tail(s) ELSE s
        low    == ToLower(body)
    IN  IF low \in { <<"i","n","f">>, <<"i","n","f","i","n","i","t","y">> }
        THEN Infinity(neg)
        ELSE IF low = <<"n","a","n">> THEN NaN
        ELSE ParseDecimal(body, neg)

IsErr(v) == v.tag = "err"

\* ------------------------------------------------------------------------
\* Godot values.  Every value is [kind, val]; values of different kinds are
\* told apart by kind alone.
\* ------------------------------------------------------------------------

Variant(k, v) == [kind |-> k, val |-> v]

\* Vector2::new and Vector3::new.
Vector2New(x, y) == [x |-> x, y |-> y]

Vector3New(x, y, z) == [x |-> x, y |-> y, z |-> z]

\* The result of an encoder that parses strings: a value, or the panic of
\* the expect that failed.
Encoded(v) == [ok |-> TRUE, v |-> v]

Panicked == [ok |-> FALSE, v |-> << >>]

\* encode_vector2: both strings are trimmed and parsed as f32.
encode_vector2(x, y) ==
    LET vec_x == ParseF32(Trim(x))
        vec_y == ParseF32(Trim(y))
    IN  IF IsErr(vec_x) \/ IsErr(vec_y) THEN Panicked
        ELSE Encoded(Vector2New(vec_x, vec_y))

\* encode_vector3.
encode_vector3(x, y, z) ==
    LET vec_x == ParseF32(Trim(x))
        vec_y == ParseF32(Trim(y))
        vec_z == ParseF32(Trim(z))
    IN  IF IsErr(vec_x) \/ IsErr(vec_y) \/ IsErr(vec_z) THEN Panicked
        ELSE Encoded(Vector3New(vec_x, vec_y, vec_z))

\* encode_rect2: Rect2::new(Point2::new(pos), Size2D::new(size)).
encode_rect2(pos_vec, size_vec) ==
    [origin |-> [x |-> pos_vec.x, y |-> pos_vec.y],
     size   |-> [width |-> size_vec.x, height |-> size_vec.y]]

\* encode_transform2d: Transform2D::row_major(m11, m12, m21, m22, m31, m32).
encode_transform2d(x_axis_vec, y_axis_vec, origin_vec) ==
    [m11 |-> x_axis_vec.x, m12 |-> x_axis_vec.y,
     m21 |-> y_axis_vec.x, m22 |-> y_axis_vec.y,
     m31 |-> origin_vec.x, m32 |-> origin_vec.y]

\* encode_basis.
encode_basis(x, y, z) == [elements |-> <<x, y, z>>]

\* encode_transform.
encode_transform(x_axis_vec, y_axis_vec, z_axis_vec, origin_vec) ==
    [basis  |-> encode_basis(x_axis_vec, y_axis_vec, z_axis_vec),
     origin |-> origin_vec]

\* encode_plane: d is trimmed and parsed as f32.
encode_plane(normal_vec, d) ==
    LET d_parsed == ParseF32(Trim(d))
    IN  IF IsErr(d_parsed) THEN Panicked
        ELSE Encoded([normal |-> normal_vec, d |-> d_parsed])

\* The alpha of Color::rgb.
OpaqueAlpha == Num(1, 0)

NoAlpha == << >>

SomeAlpha(a) == <<a>>

\* encode_color: a is an Option, here NoAlpha or SomeAlpha(string).
encode_color(r, g, b, a) ==
    LET r_parsed == ParseF32(Trim(r))
        g_parsed == ParseF32(Trim(g))
        b_parsed == ParseF32(Trim(b))
        a_parsed == IF a = NoAlpha THEN OpaqueAlpha ELSE ParseF32(Trim(a[1]))
    IN  IF IsErr(r_parsed) \/ IsErr(g_parsed) \/ IsErr(b_parsed) \/ IsErr(a_parsed)
        THEN Panicked
        ELSE Encoded([r |-> r_parsed, g |-> g_parsed, b |-> b_parsed, a |-> a_parsed])

\* ------------------------------------------------------------------------
\* The type names.
\* ------------------------------------------------------------------------

Vector2Str == <<"V","e","c","t","o","r","2">>

Vector3Str == <<"V","e","c","t","o","r","3">>

ColorStr == <<"C","o","l","o","r">>

Rect2Str == <<"R","e","c","t","2">>

PlaneStr == <<"P","l","a","n","e">>

Transform2DStr == <<"T","r","a","n","s","f","o","r","m","2","D">>

BasisStr == <<"B","a","s","i","s">>

TransformStr == <<"T","r","a","n","s","f","o","r","m">>

godot_types ==
    << Vector2Str, Vector3Str, ColorStr, Rect2Str, PlaneStr, Transform2DStr,
       BasisStr, TransformStr >>

\* The arms of the decoder that recurse for their vectors.
ComplexTypes == { Rect2Str, PlaneStr, Transform2DStr, BasisStr, TransformStr }

\* The arms that pass a pool of Vector2s to the recursive call; the others
\* pass a pool of Vector3s.
Vector2PoolTypes == { Rect2Str, Transform2DStr }

\* Dictionary::set: the key is added or its value replaced.
DictSet(d, k, v) == [x \in DOMAIN d \cup {k} |-> IF x = k THEN v ELSE d[x]]

EmptyDict == << >>

\* ------------------------------------------------------------------------
\* The inputs: TOML documents as the toml crate parses them.  A table is a
\* sequence of <<key, value>> pairs in key order (toml::map::Map iterates in
\* key order), an array a sequence of values.
\* ------------------------------------------------------------------------

Table(entries) == [kind |-> "table", val |-> entries]

Array(elems) == [kind |-> "array", val |-> elems]

Integer(n) == [kind |-> "integer", val |-> n]

Float(x) == [kind |-> "float", val |-> x]

Boolean(b) == [kind |-> "boolean", val |-> b]

Datetime(date, time) == [kind |-> "datetime", val |-> [date |-> date, time |-> time]]

String(s) == [kind |-> "string", val |-> s]

\* Datetime's Display: the date, 'T' and the time.
DatetimeToString(d) == d.date \o <<"T">> \o d.time

\* All sequences over S of length at most n.
SeqsUpTo(S, n) == UNION { [1..k -> S] : k \in 0..n }

RECURSIVE Join(_)
Join(args) ==
    IF args = << >> THEN << >>
    ELSE IF Len(args) = 1 THEN args[1]
    ELSE args[1] \o <<",", " ">> \o Join(Tail(args))

\* The text TAG(arg, arg, ...).
Literal(tag, args) == tag \o <<"(">> \o Join(args) \o <<")">>

\* Numbers of the literal grammar, each with the number it writes.
NumberLits ==
    { [text |-> <<"1">>, num |-> Num(1, 0)],
      [text |-> <<"-","2",".","5">>, num |-> Num(-25, 1)] }

\* Words that are no number.
WordLits == { <<"a","b","c">> }

FlatArgs == { n.text : n \in NumberLits } \cup WordLits

FooStr == <<"F","o","o">>

FlatTags == { Vector2Str, Vector3Str, ColorStr, FooStr }

\* TAG(args) for plain arguments.
FlatStrings ==
    { Literal(tag, args) : tag \in FlatTags, args \in SeqsUpTo(FlatArgs, MaxFlatArgs) }

\* Vector2 and Vector3 literals, each with the vector it writes.
Vector2Lits ==
    { [text |-> Literal(Vector2Str, << <<"1">>, <<"0",".","5","0">> >>),
       vec  |-> Vector2New(Num(1, 0), Num(5, 1))],
      [text |-> Literal(Vector2Str, << <<"-","3">>, <<"2">> >>),
       vec  |-> Vector2New(Num(-3, 0), Num(2, 0))] }

Vector3Lits ==
    { [text |-> Literal(Vector3Str, << <<"1">>, <<"0">>, <<"0">> >>),
       vec  |-> Vector3New(Num(1, 0), Num(0, 0), Num(0, 0))],
      [text |-> Literal(Vector3Str, << <<"0",".","5","0">>, <<"-","3">>, <<"2">> >>),
       vec  |-> Vector3New(Num(5, 1), Num(-3, 0), Num(2, 0))] }

Texts(seq) == [k \in 1..Len(seq) |-> seq[k].text]

\* What may follow the vectors of a nested literal: nothing, or one plain
\* argument.
Trailers == { << >> } \cup { <<a>> : a \in FlatArgs }

\* TAG(vector, ..., vector [, arg]) with vectors of one kind.
NestedStrings ==
    { Literal(tag, Texts(vs) \o tr) :
        tag \in ComplexTypes,
        vs \in SeqsUpTo(Vector2Lits, MaxNestedArgs) \cup SeqsUpTo(Vector3Lits, MaxNestedArgs),
        tr \in Trailers }

V2a == Literal(Vector2Str, << <<"1">>, <<"2">> >>)

V3a == Literal(Vector3Str, << <<"1">>, <<"2">>, <<"3">> >>)

Col3 == Literal(ColorStr, << <<"1">>, <<"1">>, <<"1">> >>)

\* Strings outside the two families above.
OtherStrings ==
    { <<"p","l","a","i","n">>,
      << >>,
      <<"a"," ","-"," ","b",".","c">>,
      <<"(",")">>,
      <<"(",",",")"," ","/">>,
      <<"/">> \o V2a,
      <<"-">> \o V2a,
      <<"(">> \o V2a \o <<")">>,
      <<"x"," ">> \o V2a,
      Literal(FooStr, <<V2a>>),
      Literal(<<"v","e","c","t","o","r","2">>, << <<"1">>, <<"2">> >>),
      Literal(Vector2Str, << <<"i","n","f">>, <<"1","e","2">> >>),
      Literal(Vector2Str, << <<"1",".">>, <<".","5">> >>),
      Literal(Vector2Str, << <<".">>, <<"1">> >>),
      Literal(Vector2Str, << <<"1",".","2",".","3">>, <<"1">> >>),
      Literal(Vector2Str, << <<"1">>, <<"2">> >>) \o <<" ">> \o Col3,
      Literal(ColorStr, << <<"0",".","1">>, <<"0",".","2">>, <<"0",".","3">>, <<"0",".","5">> >>),
      Literal(ColorStr, <<V2a, <<"3">>, <<"4">> >>),
      Literal(PlaneStr, <<V3a, Col3, <<"a","b","c">> >>),
      Literal(PlaneStr, <<V3a, V2a, <<"a","b","c">> >>),
      Literal(PlaneStr, <<V3a, Col3, <<"4">> >>),
      Literal(PlaneStr, <<V2a, <<"4">> >>),
      Literal(Rect2Str, <<Col3, V2a>>),
      Literal(Rect2Str, <<V2a, V3a, V2a>>),
      Literal(Rect2Str, <<Literal(Rect2Str, <<V2a, V2a>>), V2a>>),
      Literal(Rect2Str, <<V2a, Literal(Rect2Str, <<V2a, V2a>>)>>),
      Literal(Rect2Str, <<V2a, Literal(ColorStr, << <<"1">> >>)>>),
      Literal(BasisStr, <<V3a, Literal(PlaneStr, <<V3a, <<"4">> >>), V3a>>),
      Literal(TransformStr,
              << Literal(Vector3Str, << <<"1">>, <<"0">>, <<"0">> >>),
                 Literal(Vector3Str, << <<"0">>, <<"1">>, <<"0">> >>),
                 Literal(Vector3Str, << <<"0">>, <<"0">>, <<"1">> >>),
                 Literal(Vector3Str, << <<"0">>, <<"0">>, <<"0">> >>) >>) }

Strings == FlatStrings \cup NestedStrings \cup OtherStrings

\* The leaves of a generated table: none, or one value under the key "a".
Leaves ==
    { << >> } \cup
    { << <<"a", v>> >> :
        v \in { Integer(7), Float(Num(-15, 1)), Boolean(TRUE),
                Datetime(<<"1","9","7","9","-","0","5","-","2","7">>,
                         <<"0","7",":","3","2",":","0","0","Z">>),
                String(<<"p","l","a","i","n">>),
                String(V2a) } }

\* Tables nested to depth d: a leaf, and no child, a table under "t" or an
\* array of one table under "r".
RECURSIVE Tables(_)
Tables(d) ==
    IF d = 0 THEN { Table(l) : l \in Leaves }
    ELSE { Table(l \o c) :
             l \in Leaves,
             c \in { << >> }
                   \cup { << <<"t", t>> >> : t \in Tables(d - 1) }
                   \cup { << <<"r", Array(<<t>>)>> >> : t \in Tables(0) } }

\* Documents outside the families: arrays of several tables, an empty
\* array, an array of integers, several string leaves in one table.
OtherTables ==
    { Table(<< <<"r", Array(<< Table(<< <<"a", Integer(7)>> >>),
                              Table(<< <<"a", String(V2a)>>, <<"b", Boolean(FALSE)>> >>) >>)>> >>),
      Table(<< <<"r", Array(<< >>)>> >>),
      Table(<< <<"r", Array(<< Integer(1), Integer(2) >>)>> >>),
      Table(<< <<"a", String(V2a)>>, <<"b", String(Col3)>>, <<"c", Integer(3)>> >>),
      Table(<< <<"a", String(<<"(",")">>)>>, <<"b", Integer(3)>> >>) }

Documents ==
    Tables(MaxDepth) \cup OtherTables
        \cup { Table(<< <<"k", String(s)>> >>) : s \in Strings }

\* A file at the path: whether it can be opened, whether its text is
\* well-formed TOML, and the document the text writes.
Files ==
    { [opens |-> TRUE, wellformed |-> TRUE, toml |-> d] : d \in Documents }
        \cup { [opens |-> TRUE, wellformed |-> FALSE, toml |-> Table(<< >>)],
               [opens |-> FALSE, wellformed |-> TRUE, toml |-> Table(<< >>)] }

\* ------------------------------------------------------------------------
\* The state.
\* ------------------------------------------------------------------------

VARIABLES
    pc,            \* "start", "walk", "tokenize", "decode", "done" or "panic"
    file,          \* the file at the path given to parse_toml
    stack,         \* the running calls of populate_toml_dictionary and its array loops
    key,           \* encode_godot_types: the key of the string being scanned
    value,         \* encode_godot_types: the string being scanned
    type_idx,      \* encode_godot_types: the offset the next match is searched from
    type_results,  \* encode_godot_types: the tokens found so far
    calls,         \* the running calls of set_godot_type_to_dictionary
    error,         \* the message of the panic, or NoError
    returned       \* what parse_toml returned: << >> before it returns, then <<dictionary>>

vars == << pc, file, stack, key, value, type_idx, type_results, calls, error, returned >>

\* No key: the root table and the tables of an array are stored under none,
\* and no string is being scanned.
NoKey == "<none>"

NoError == "<none>"

\* The panics of the code.
IndexOutOfBounds == "index out of bounds"

UnableToCastF32 == "Unable to cast to f32"

UnableToCastFloat == "Unable to cast to float"

UnableToParse == "Unable to parse toml file."

UnwrapNone == "called Option::unwrap() on a None value"

\* A call of populate_toml_dictionary on a table (kind table: items are
\* its entries, dic the dictionary it fills, key the key its caller stores
\* the dictionary under) or the loop over an array (kind array: items are
\* the elements, arr the VariantArray).  pos counts the items the loop has
\* taken.
WalkFrame(kind, k, items) ==
    [kind |-> kind, key |-> k, items |-> items, pos |-> 0, dic |-> EmptyDict, arr |-> << >>]

\* A call of set_godot_type_to_dictionary: i is the index of the loop
\* (0-based), vec2_pool and vec3_pool tell whether the parameter is Some,
\* pool is the Vec the running arm made for its recursive call, and called
\* tells that the arm has made the call.
CallFrame(regex_results, vec2_pool, vec3_pool) ==
    [regex_results |-> regex_results, i |-> 0, vec2_pool |-> vec2_pool,
     vec3_pool |-> vec3_pool, pool |-> << >>, called |-> FALSE]

Top(s) == s[Len(s)]

NoScan ==
    /\ key' = NoKey
    /\ value' = << >>
    /\ type_idx' = 0
    /\ type_results' = << >>

Panic(msg) ==
    /\ pc' = "panic"
    /\ error' = msg

\* dictionary.set(key, v) on the dictionary of the running
\* populate_toml_dictionary, which also takes the next item.
Stored(k, v) == [stack EXCEPT ![Len(stack)].dic = DictSet(@, k, v)]

Taken == [stack EXCEPT ![Len(stack)].pos = @ + 1]

TakenAndStored(k, v) ==
    [stack EXCEPT ![Len(stack)].pos = @ + 1, ![Len(stack)].dic = DictSet(@, k, v)]

Init ==
    /\ pc = "start"
    /\ file \in Files
    /\ stack = << >>
    /\ key = NoKey
    /\ value = << >>
    /\ type_idx = 0
    /\ type_results = << >>
    /\ calls = << >>
    /\ error = NoError
    /\ returned = << >>

\* ------------------------------------------------------------------------
\* parse_toml.
\* ------------------------------------------------------------------------

\* What file.get_as_text() and toml::from_str give: a file that did not
\* open reads as the empty text, which is the empty table.
ReadToml(f) == IF f.opens THEN f.toml ELSE Table(<< >>)

\* parse_toml up to its call of populate_toml_dictionary: a failed open is
\* printed and the function goes on.
ParseToml ==
    /\ pc = "start"
    /\ IF file.opens /\ ~file.wellformed
       THEN /\ Panic(UnableToParse)
            /\ UNCHANGED stack
       ELSE /\ pc' = "walk"
            /\ stack' = << WalkFrame("table", NoKey, ReadToml(file).val) >>
            /\ UNCHANGED error
    /\ UNCHANGED << file, key, value, type_idx, type_results, calls, returned >>

\* parse_toml returns the dictionary.
ParseTomlReturn ==
    /\ pc = "walk"
    /\ Len(stack) = 1
    /\ Top(stack).pos = Len(Top(stack).items)
    /\ pc' = "done"
    /\ returned' = << Variant("Dictionary", Top(stack).dic) >>
    /\ NoScan
    /\ UNCHANGED << file, stack, calls, error >>

\* ------------------------------------------------------------------------
\* populate_toml_dictionary.
\* ------------------------------------------------------------------------

\* The loop of the running call has an entry to take.
AtEntry(kind) ==
    /\ pc = "walk"
    /\ Top(stack).kind = "table"
    /\ Top(stack).pos < Len(Top(stack).items)
    /\ Top(stack).items[Top(stack).pos + 1][2].kind = kind

EntryKey == Top(stack).items[Top(stack).pos + 1][1]

EntryValue == Top(stack).items[Top(stack).pos + 1][2]

\* The sub-dictionary as it is before the recursive call fills it.
FromSubDicUnfilled(frame) == Variant("Dictionary", EmptyDict)

\* Variant::from_dictionary(sub_dic) once the recursive call on sub_dic has
\* returned.
FromSubDic(frame) == Variant("Dictionary", frame.dic)

\* The "table" arm up to the recursive call.
PopulateTable ==
    /\ AtEntry("table")
    /\ stack' = Append(Taken, WalkFrame("table", EntryKey, EntryValue.val))
    /\ NoScan
    /\ UNCHANGED << pc, file, calls, error, returned >>

\* The recursive call of the "table" arm returns and the arm stores the
\* sub-dictionary.
PopulateTableReturn ==
    /\ pc = "walk"
    /\ Len(stack) > 1
    /\ Top(stack).kind = "table"
    /\ Top(stack).pos = Len(Top(stack).items)
    /\ stack[Len(stack) - 1].kind = "table"
    /\ stack' = [SubSeq(stack, 1, Len(stack) - 1) EXCEPT
                   ![Len(stack) - 1].dic =
                       DictSet(@, Top(stack).key, FromSubDic(Top(stack)))]
    /\ NoScan
    /\ UNCHANGED << pc, file, calls, error, returned >>

\* The "array" arm up to its loop.
PopulateArray ==
    /\ AtEntry("array")
    /\ stack' = Append(Taken, WalkFrame("array", EntryKey, EntryValue.val))
    /\ NoScan
    /\ UNCHANGED << pc, file, calls, error, returned >>

\* The loop of the "array" arm takes an element: i.as_table().unwrap()
\* and the recursive call.
PopulateArrayElement ==
    /\ pc = "walk"
    /\ Top(stack).kind = "array"
    /\ Top(stack).pos < Len(Top(stack).items)
    /\ LET i == Top(stack).items[Top(stack).pos + 1]
       IN  IF i.kind = "table"
           THEN /\ stack' = Append(Taken, WalkFrame("table", NoKey, i.val))
                /\ UNCHANGED << pc, error >>
           ELSE /\ Panic(UnwrapNone)
                /\ UNCHANGED stack
    /\ NoScan
    /\ UNCHANGED << file, calls, returned >>

\* The recursive call of the loop returns and the sub-dictionary is pushed.
PopulateArrayElementReturn ==
    /\ pc = "walk"
    /\ Len(stack) > 1
    /\ Top(stack).kind = "table"
    /\ Top(stack).pos = Len(Top(stack).items)
    /\ stack[Len(stack) - 1].kind = "array"
    /\ stack' = [SubSeq(stack, 1, Len(stack) - 1) EXCEPT
                   ![Len(stack) - 1].arr = Append(@, FromSubDic(Top(stack)))]
    /\ NoScan
    /\ UNCHANGED << pc, file, calls, error, returned >>

\* The loop of the "array" arm ends and the arm stores the array.
PopulateArrayReturn ==
    /\ pc = "walk"
    /\ Top(stack).kind = "array"
    /\ Top(stack).pos = Len(Top(stack).items)
    /\ stack' = [SubSeq(stack, 1, Len(stack) - 1) EXCEPT
                   ![Len(stack) - 1].dic =
                       DictSet(@, Top(stack).key, Variant("Array", Top(stack).arr))]
    /\ NoScan
    /\ UNCHANGED << pc, file, calls, error, returned >>

\* The "integer" arm.
PopulateInteger ==
    /\ AtEntry("integer")
    /\ stack' = TakenAndStored(EntryKey, Variant("I64", EntryValue.val))
    /\ NoScan
    /\ UNCHANGED << pc, file, calls, error, returned >>

\* The "float" arm.
PopulateFloat ==
    /\ AtEntry("float")
    /\ stack' = TakenAndStored(EntryKey, Variant("F64", EntryValue.val))
    /\ NoScan
    /\ UNCHANGED << pc, file, calls, error, returned >>

\* The "boolean" arm.
PopulateBoolean ==
    /\ AtEntry("boolean")
    /\ stack' = TakenAndStored(EntryKey, Variant("Bool", EntryValue.val))
    /\ NoScan
    /\ UNCHANGED << pc, file, calls, error, returned >>

\* The "datetime" arm.
PopulateDatetime ==
    /\ AtEntry("datetime")
    /\ stack' = TakenAndStored(EntryKey, Variant("GodotString", DatetimeToString(EntryValue.val)))
    /\ NoScan
    /\ UNCHANGED << pc, file, calls, error, returned >>

\* The "string" arm without its test: every string is scanned.
NeedsScanAlways(value_as_str) == TRUE

\* The test of the "string" arm: the string is scanned for a Godot type.
NeedsScan(value_as_str) == Contains(value_as_str, "(")

\* The "string" arm: a string with a parenthesis goes to encode_godot_types,
\* any other is stored as it is.
PopulateString ==
    /\ AtEntry("string")
    /\ IF NeedsScan(EntryValue.val)
       THEN /\ pc' = "tokenize"
            /\ stack' = Taken
            /\ key' = EntryKey
            /\ value' = EntryValue.val
            /\ type_idx' = 0
            /\ type_results' = << >>
       ELSE /\ stack' = TakenAndStored(EntryKey, Variant("GodotString", EntryValue.val))
            /\ NoScan
            /\ UNCHANGED pc
    /\ UNCHANGED << file, calls, error, returned >>

\* ------------------------------------------------------------------------
\* encode_godot_types.
\* ------------------------------------------------------------------------

\* One turn of the while loop: the next match is found, its group 1 is
\* pushed and the offset moves to the end of the match.
TokenizeMatch ==
    /\ pc = "tokenize"
    /\ HasMatch(value, type_idx)
    /\ LET p == MatchStart(value, type_idx)
       IN  /\ type_results' = Append(type_results, MatchText(value, p))
           /\ type_idx' = MatchEnd(value, p)
    /\ UNCHANGED << pc, file, stack, key, value, calls, error, returned >>

\* The lookup of any token, not the first, in godot_types.
ContainsGodotType(regex_results) ==
    \E k \in 1..Len(regex_results) : regex_results[k] \in Range(godot_types)

\* godot_types.contains(&type_results[0]).
StartsWithGodotType(regex_results) == regex_results[1] \in Range(godot_types)

\* The first call of set_godot_type_to_dictionary: no pools.
FirstCall(regex_results) == << CallFrame(regex_results, FALSE, FALSE) >>

\* After the loop: type_results[0] is looked up in godot_types; a string
\* that starts with none of them is stored as it is, any other is decoded.
CheckGodotType ==
    /\ pc = "tokenize"
    /\ ~HasMatch(value, type_idx)
    /\ IF type_results = << >>
       THEN /\ Panic(IndexOutOfBounds)
            /\ UNCHANGED << stack, calls >>
       ELSE IF ~StartsWithGodotType(type_results)
       THEN /\ stack' = Stored(key, Variant("GodotString", value))
            /\ pc' = "walk"
            /\ UNCHANGED << calls, error >>
       ELSE /\ calls' = FirstCall(type_results)
            /\ pc' = "decode"
            /\ UNCHANGED << stack, error >>
    /\ UNCHANGED << file, key, value, type_idx, type_results, returned >>

\* ------------------------------------------------------------------------
\* set_godot_type_to_dictionary.
\* ------------------------------------------------------------------------

\* regex_results[j] of the running call, j 0-based.
Item(j) == Top(calls).regex_results[j + 1]

InBounds(j) == j < Len(Top(calls).regex_results)

\* The loop of the running call is at an item.
AtItem ==
    /\ pc = "decode"
    /\ ~Top(calls).called
    /\ InBounds(Top(calls).i)

\* The running call returns: to its caller's arm, or to encode_godot_types
\* and from there to the loop of populate_toml_dictionary.
Return ==
    /\ calls' = SubSeq(calls, 1, Len(calls) - 1)
    /\ pc' = IF Len(calls) = 1 THEN "walk" ELSE "decode"

\* An arm that made a value: with a pool the value is pushed and the loop
\* goes on, without one it is stored under the key and the loop breaks.
PushOrStore(has_pool, kind, v) ==
    IF has_pool
    THEN /\ calls' = [calls EXCEPT ![Len(calls)].i = @ + 1,
                                   ![Len(calls) - 1].pool = Append(@, v)]
         /\ UNCHANGED << pc, stack, error >>
    ELSE /\ stack' = Stored(key, Variant(kind, v))
         /\ Return
         /\ UNCHANGED error

\* The "Vector2" arm.
Vector2Arm ==
    /\ AtItem
    /\ Item(Top(calls).i) = Vector2Str
    /\ LET i == Top(calls).i
       IN  IF ~InBounds(i + 2)
           THEN /\ Panic(IndexOutOfBounds)
                /\ UNCHANGED << stack, calls >>
           ELSE LET vector2 == encode_vector2(Item(i + 1), Item(i + 2))
                IN  IF ~vector2.ok
                    THEN /\ Panic(UnableToCastF32)
                         /\ UNCHANGED << stack, calls >>
                    ELSE PushOrStore(Top(calls).vec2_pool, "Vector2", vector2.v)
    /\ UNCHANGED << file, key, value, type_idx, type_results, returned >>

\* The "Vector3" arm.
Vector3Arm ==
    /\ AtItem
    /\ Item(Top(calls).i) = Vector3Str
    /\ LET i == Top(calls).i
       IN  IF ~InBounds(i + 3)
           THEN /\ Panic(IndexOutOfBounds)
                /\ UNCHANGED << stack, calls >>
           ELSE LET vector3 == encode_vector3(Item(i + 1), Item(i + 2), Item(i + 3))
                IN  IF ~vector3.ok
                    THEN /\ Panic(UnableToCastF32)
                         /\ UNCHANGED << stack, calls >>
                    ELSE PushOrStore(Top(calls).vec3_pool, "Vector3", vector3.v)
    /\ UNCHANGED << file, key, value, type_idx, type_results, returned >>

\* The test for an alpha of the "Color" arm.
HasAlpha(regex_results) == Len(regex_results) = 5

\* The "Color" arm: the alpha is regex_results[i + 4] when the list has
\* five items.
ColorArm ==
    /\ AtItem
    /\ Item(Top(calls).i) = ColorStr
    /\ LET i == Top(calls).i
           has_alpha == HasAlpha(Top(calls).regex_results)
       IN  IF (has_alpha /\ ~InBounds(i + 4)) \/ ~InBounds(i + 3)
           THEN /\ Panic(IndexOutOfBounds)
                /\ UNCHANGED << stack, calls >>
           ELSE LET alpha == IF has_alpha THEN SomeAlpha(Item(i + 4)) ELSE NoAlpha
                    color == encode_color(Item(i + 1), Item(i + 2), Item(i + 3), alpha)
                IN  IF ~color.ok
                    THEN /\ Panic(UnableToCastFloat)
                         /\ UNCHANGED << stack, calls >>
                    ELSE /\ stack' = Stored(key, Variant("Color", color.v))
                         /\ Return
                         /\ UNCHANGED error
    /\ UNCHANGED << file, key, value, type_idx, type_results, returned >>

\* The slice taken from the tag: regex_results[i..].
NewRegexResultsFromTag(regex_results, i) == SubSeq(regex_results, i + 1, Len(regex_results))

\* regex_results[i + 1..regex_results.len()].to_vec().
NewRegexResults(regex_results, i) == SubSeq(regex_results, i + 2, Len(regex_results))

\* The "Rect2", "Plane", "Transform2D", "Basis" and "Transform" arms up to
\* and with their recursive call: on the items after the tag, with a new
\* pool of the arm's vector type.
ComplexArmCall ==
    /\ AtItem
    /\ Item(Top(calls).i) \in ComplexTypes
    /\ LET item == Item(Top(calls).i)
           new_regex_results == NewRegexResults(Top(calls).regex_results, Top(calls).i)
       IN  calls' = Append([calls EXCEPT ![Len(calls)].called = TRUE,
                                         ![Len(calls)].pool = << >>],
                           CallFrame(new_regex_results,
                                     item \in Vector2PoolTypes,
                                     item \notin Vector2PoolTypes))
    /\ UNCHANGED << pc, file, stack, key, value, type_idx, type_results, error, returned >>

\* The vectors an arm takes from its pool.
PoolNeed(item) ==
    CASE item = Rect2Str -> 2
      [] item = PlaneStr -> 1
      [] item = Transform2DStr -> 3
      [] item = BasisStr -> 3
      [] item = TransformStr -> 4

\* The name of the Variant an arm stores.
VariantKind(item) ==
    CASE item = Rect2Str -> "Rect2"
      [] item = PlaneStr -> "Plane"
      [] item = Transform2DStr -> "Transform2D"
      [] item = BasisStr -> "Basis"
      [] item = TransformStr -> "Transform"

\* What an arm builds from its pool after the recursive call (the Plane
\* from the last item of its list as well).
Build(item, pool, regex_results) ==
    CASE item = Rect2Str -> Encoded(encode_rect2(pool[1], pool[2]))
      [] item = PlaneStr -> encode_plane(pool[1], regex_results[Len(regex_results)])
      [] item = Transform2DStr -> Encoded(encode_transform2d(pool[1], pool[2], pool[3]))
      [] item = BasisStr -> Encoded(encode_basis(pool[1], pool[2], pool[3]))
      [] item = TransformStr -> Encoded(encode_transform(pool[1], pool[2], pool[3], pool[4]))

\* The rest of the "Rect2", "Plane", "Transform2D", "Basis" and "Transform"
\* arms: the value is built from the pool, stored, and the loop breaks.
ComplexArmBuild ==
    /\ pc = "decode"
    /\ Top(calls).called
    /\ LET item == Item(Top(calls).i)
           pool == Top(calls).pool
       IN  IF Len(pool) < PoolNeed(item)
           THEN /\ Panic(IndexOutOfBounds)
                /\ UNCHANGED << stack, calls >>
           ELSE LET built == Build(item, pool, Top(calls).regex_results)
                IN  IF ~built.ok
                    THEN /\ Panic(UnableToCastF32)
                         /\ UNCHANGED << stack, calls >>
                    ELSE /\ stack' = Stored(key, Variant(VariantKind(item), built.v))
                         /\ Return
                         /\ UNCHANGED error
    /\ UNCHANGED << file, key, value, type_idx, type_results, returned >>

\* The default arm: the loop goes on.
OtherArm ==
    /\ AtItem
    /\ Item(Top(calls).i) \notin Range(godot_types)
    /\ calls' = [calls EXCEPT ![Len(calls)].i = @ + 1]
    /\ UNCHANGED << pc, file, stack, key, value, type_idx, type_results, error, returned >>

\* The loop ends and the call returns.
LoopEnd ==
    /\ pc = "decode"
    /\ ~Top(calls).called
    /\ ~InBounds(Top(calls).i)
    /\ Return
    /\ UNCHANGED << file, stack, key, value, type_idx, type_results, error, returned >>

\* ------------------------------------------------------------------------
\* The specification.
\* ------------------------------------------------------------------------

Next ==
    \/ ParseToml
    \/ ParseTomlReturn
    \/ PopulateTable
    \/ PopulateTableReturn
    \/ PopulateArray
    \/ PopulateArrayElement
    \/ PopulateArrayElementReturn
    \/ PopulateArrayReturn
    \/ PopulateInteger
    \/ PopulateFloat
    \/ PopulateBoolean
    \/ PopulateDatetime
    \/ PopulateString
    \/ TokenizeMatch
    \/ CheckGodotType
    \/ Vector2Arm
    \/ Vector3Arm
    \/ ColorArm
    \/ ComplexArmCall
    \/ ComplexArmBuild
    \/ OtherArm
    \/ LoopEnd

Spec == Init /\ [][Next]_vars

\* The files of the termination check: the documents and strings written
\* out one by one above, the tables nested once, and the two files
\* that do not give a document.
TermFiles ==
    { f \in Files :
        \/ ~f.opens
        \/ ~f.wellformed
        \/ f.toml \in OtherTables \cup Tables(1)
        \/ \E s \in OtherStrings : f.toml = Table(<< <<"k", String(s)>> >>) }

InitTerm == Init /\ file \in TermFiles

\* The code runs in one thread and never waits: a step that can be taken
\* is taken.
TermSpec == InitTerm /\ [][Next]_vars /\ WF_vars(Next)

\* ------------------------------------------------------------------------
\* Properties.
\* ------------------------------------------------------------------------

\* encode_godot_types has returned for the string under `key` and the loop
\* of populate_toml_dictionary has not gone on yet.
ScanDone == pc = "walk" /\ key # NoKey

HasStored == key \in DOMAIN Top(stack).dic

\* What the dictionary holds under the key of the scanned string.
StoredValue == Top(stack).dic[key]

\* The eight type names of the specification.
EightTags ==
    { <<"V","e","c","t","o","r","2">>, <<"V","e","c","t","o","r","3">>,
      <<"C","o","l","o","r">>, <<"R","e","c","t","2">>, <<"P","l","a","n","e">>,
      <<"T","r","a","n","s","f","o","r","m","2","D">>, <<"B","a","s","i","s">>,
      <<"T","r","a","n","s","f","o","r","m">> }

MalformedLiteral == error \in { UnableToCastF32, UnableToCastFloat }

\* The number a literal writes, or that number without its sign.
NumberOf(lit, signed) ==
    IF signed \/ lit.num.m >= 0 THEN lit.num ELSE Num(0 - lit.num.m, lit.num.e)

Unsign(n) == IF n.m >= 0 THEN n ELSE Num(0 - n.m, n.e)

\* The vector a literal writes, or that vector without the signs.
VectorOf(lit, signed) ==
    IF signed THEN lit.vec ELSE [f \in DOMAIN lit.vec |-> Unsign(lit.vec[f])]

\* After the scan of Vector2(x, y) or Vector3(x, y, z), the value under
\* the key is the vector of the numbers written (signed), or of the numbers
\* written without their signs.
VectorFields(signed) ==
    /\ \A x \in NumberLits, y \in NumberLits :
          (ScanDone /\ value = Literal(Vector2Str, <<x.text, y.text>>)) =>
             /\ HasStored
             /\ StoredValue.kind = "Vector2"
             /\ StoredValue.val = [x |-> NumberOf(x, signed), y |-> NumberOf(y, signed)]
    /\ \A x \in NumberLits, y \in NumberLits, z \in NumberLits :
          (ScanDone /\ value = Literal(Vector3Str, <<x.text, y.text, z.text>>)) =>
             /\ HasStored
             /\ StoredValue.kind = "Vector3"
             /\ StoredValue.val = [x |-> NumberOf(x, signed), y |-> NumberOf(y, signed),
                                   z |-> NumberOf(z, signed)]

\* C1: for every Vector2(x, y) and Vector3(x, y, z) whose arguments are
\* numbers of the grammar (a leading '-' allowed), the value stored under
\* the key after the scan is a Vector2 or Vector3 whose fields are, in
\* order, the numbers written.
C1_VectorFieldsAsWritten == VectorFields(TRUE)

\* What the code does instead: the fields are the numbers written without
\* their signs, the tokenizer's class having no '-'.
VectorFieldsUnsigned == VectorFields(FALSE)

\* After the scan of Color(r, g, b) the alpha is 1.0, after the scan of
\* Color(r, g, b, a) it is the number a (signed or not), and for any string
\* whose first token is Color the alpha is 1.0 unless the token list has
\* five items.
ColorAlpha(signed) ==
    /\ \A r \in NumberLits, g \in NumberLits, b \in NumberLits :
          (ScanDone /\ value = Literal(ColorStr, <<r.text, g.text, b.text>>)) =>
             /\ HasStored
             /\ StoredValue.kind = "Color"
             /\ StoredValue.val.a = Num(1, 0)
    /\ \A r \in NumberLits, g \in NumberLits, b \in NumberLits, a \in NumberLits :
          (ScanDone /\ value = Literal(ColorStr, <<r.text, g.text, b.text, a.text>>)) =>
             /\ HasStored
             /\ StoredValue.kind = "Color"
             /\ StoredValue.val.a = NumberOf(a, signed)
    /\ (ScanDone /\ type_results # << >> /\ type_results[1] \in { <<"C","o","l","o","r">> }) =>
             /\ HasStored
             /\ StoredValue.kind = "Color"
             /\ Len(type_results) # 5 => StoredValue.val.a = Num(1, 0)

\* C2: Color(r, g, b) stores a Color of alpha 1.0 and Color(r, g, b, a) a
\* Color whose alpha is the number a; the fourth argument is the alpha
\* exactly when the token list has five items.
C2_ColorAlpha == ColorAlpha(TRUE)

\* What the code does instead: the alpha is the number a without its sign.
ColorAlphaUnsigned == ColorAlpha(FALSE)

\* The Rect2 of a position and a size, the Transform2D of two axes and an
\* origin, the Basis of three axes, the Transform of three axes and an
\* origin.
ExpectedComplex(tag, v) ==
    CASE tag = Rect2Str ->
           Variant("Rect2", [origin |-> [x |-> v[1].x, y |-> v[1].y],
                             size   |-> [width |-> v[2].x, height |-> v[2].y]])
      [] tag = Transform2DStr ->
           Variant("Transform2D", [m11 |-> v[1].x, m12 |-> v[1].y,
                                   m21 |-> v[2].x, m22 |-> v[2].y,
                                   m31 |-> v[3].x, m32 |-> v[3].y])
      [] tag = BasisStr ->
           Variant("Basis", [elements |-> <<v[1], v[2], v[3]>>])
      [] tag = TransformStr ->
           Variant("Transform", [basis  |-> [elements |-> <<v[1], v[2], v[3]>>],
                                 origin |-> v[4]])

Vecs(seq, signed) == [k \in 1..Len(seq) |-> VectorOf(seq[k], signed)]

ExpectedArgs(tag) ==
    CASE tag = Rect2Str -> [1..2 -> Vector2Lits]
      [] tag = Transform2DStr -> [1..3 -> Vector2Lits]
      [] tag = BasisStr -> [1..3 -> Vector3Lits]
      [] tag = TransformStr -> [1..4 -> Vector3Lits]

\* After the scan of a Rect2, Transform2D, Basis or Transform literal with
\* exactly the expected vectors, the value under the key is the variant of
\* the outer tag made of those vectors (signed or not) in the order written.
ComplexComponents(signed) ==
    \A tag \in { Rect2Str, Transform2DStr, BasisStr, TransformStr } :
       \A vs \in ExpectedArgs(tag) :
          (ScanDone /\ value = Literal(tag, Texts(vs))) =>
             /\ HasStored
             /\ StoredValue.kind = ExpectedComplex(tag, Vecs(vs, signed)).kind
             /\ StoredValue = ExpectedComplex(tag, Vecs(vs, signed))

\* C3: a Rect2, Transform2D, Basis or Transform literal with exactly the
\* expected vectors of the matching kind stores the variant of the outer
\* tag whose components are those vectors in the order written.
C3_ComplexComponentsInOrder == ComplexComponents(TRUE)

\* What the code does instead: the components are those vectors without
\* the signs of their numbers, in the order written.
ComplexComponentsUnsigned == ComplexComponents(FALSE)

\* A string leaf without '(' that the loop of frame n has taken as its
\* j-th entry.
PlainStringTaken(n, j) ==
    /\ stack[n].kind = "table"
    /\ j \in 1..stack[n].pos
    /\ stack[n].items[j][2].kind = "string"
    /\ ~Contains(stack[n].items[j][2].val, "(")

\* C4: a string leaf without '(' is stored under its key as the string
\* itself, and neither the tokenizer nor the decoder runs for it.
C4_PlainStringStoredUnchanged ==
    \A n \in 1..Len(stack) : \A j \in 1..stack[n].pos :
       PlainStringTaken(n, j) =>
          /\ stack[n].items[j][1] \in DOMAIN stack[n].dic
          /\ stack[n].dic[stack[n].items[j][1]].kind = "GodotString"
          /\ stack[n].dic[stack[n].items[j][1]].val = stack[n].items[j][2].val
          /\ (n = Len(stack) /\ j = stack[n].pos) =>
                /\ pc \in {"walk", "done"}
                /\ key = NoKey
                /\ type_results = << >>
                /\ calls = << >>

C4_Witness ==
    /\ stack # << >>
    /\ PlainStringTaken(Len(stack), Top(stack).pos)
    /\ Top(stack).items[Top(stack).pos][2].val # << >>
    /\ pc = "walk"

\* The tokens are all found and the first is none of the eight tags.
NotAGodotType ==
    /\ key # NoKey
    /\ ~HasMatch(value, type_idx)
    /\ type_results # << >>
    /\ type_results[1] \notin EightTags

\* C5: a string with '(' whose first token is none of the eight tags is
\* stored under its key as the string itself and the decoder never runs
\* for it, also when a later token is a tag.
C5_UnknownTagStoredUnchanged ==
    NotAGodotType =>
       /\ calls = << >>
       /\ error = NoError
       /\ pc \in {"tokenize", "walk"}
       /\ pc = "walk" =>
             /\ HasStored
             /\ StoredValue.kind = "GodotString"
             /\ StoredValue.val = value

C5_Witness ==
    /\ NotAGodotType
    /\ pc = "walk"
    /\ \E k \in 2..Len(type_results) : type_results[k] \in EightTags

\* A table whose values are integers, floats, booleans, datetimes and
\* tables of that kind.
RECURSIVE PlainTree(_)
PlainTree(v) ==
    /\ v.kind = "table"
    /\ \A j \in 1..Len(v.val) :
          \/ v.val[j][2].kind \in {"integer", "float", "boolean", "datetime"}
          \/ v.val[j][2].kind = "table" /\ PlainTree(v.val[j][2])

KeysOf(entries) == { entries[j][1] : j \in 1..Len(entries) }

ValueAt(entries, k) == entries[CHOOSE j \in 1..Len(entries) : entries[j][1] = k][2]

\* The tree of a plain document: a mapping with the keys of the table,
\* each leaf with its value, a datetime as its date, 'T' and its time.
RECURSIVE Mirror(_)
Mirror(v) ==
    CASE v.kind = "table" ->
           [kind |-> "Dictionary",
            val  |-> [k \in KeysOf(v.val) |-> Mirror(ValueAt(v.val, k))]]
      [] v.kind = "integer" -> [kind |-> "I64", val |-> v.val]
      [] v.kind = "float" -> [kind |-> "F64", val |-> v.val]
      [] v.kind = "boolean" -> [kind |-> "Bool", val |-> v.val]
      [] v.kind = "datetime" ->
           [kind |-> "GodotString", val |-> v.val.date \o <<"T">> \o v.val.time]

\* The keys frame n has stored: those of the entries its loop has taken,
\* but for the entry whose sub-table is still being walked.
KeysDone(n) ==
    { stack[n].items[j][1] : j \in 1..stack[n].pos }
        \ (IF n < Len(stack) THEN { stack[n].items[stack[n].pos][1] } ELSE {})

\* C6: for a document of nested tables with integer, float, boolean and
\* datetime leaves, every dictionary under construction holds exactly the
\* keys of the entries done so far, each with the complete tree of its
\* value (a sub-dictionary is whole when it is stored), and the dictionary
\* returned is the tree of the document.
C6_PlainTreeMirrored ==
    PlainTree(ReadToml(file)) =>
       /\ \A n \in 1..Len(stack) :
             /\ DOMAIN stack[n].dic = KeysDone(n)
             /\ \A k \in DOMAIN stack[n].dic :
                   /\ stack[n].dic[k].kind = Mirror(ValueAt(stack[n].items, k)).kind
                   /\ stack[n].dic[k] = Mirror(ValueAt(stack[n].items, k))
       /\ pc = "done" =>
             /\ Len(returned) = 1
             /\ returned[1] = Mirror(file.toml)

C6_Witness ==
    /\ pc = "done"
    /\ file.opens
    /\ PlainTree(file.toml)
    /\ "t" \in DOMAIN returned[1].val
    /\ DOMAIN returned[1].val["t"].val = {"a", "t"}
    /\ returned[1].val["t"].val["t"].val # << >>

\* C7: when the decode fails on a token that is no number where a number
\* is expected, no value has been stored under the key of the string.
C7_NoLeafOnMalformedLiteral ==
    (pc = "panic" /\ MalformedLiteral) => ~HasStored

\* C8: a string with '(' and no token is stored under its key as the
\* string itself, without a failure.
C8_EmptyTokenListStoredUnchanged ==
    (key # NoKey /\ ~HasMatch(value, type_idx) /\ type_results = << >>) =>
       /\ error = NoError
       /\ pc \in {"tokenize", "walk"}
       /\ pc = "walk" =>
             /\ HasStored
             /\ StoredValue.kind = "GodotString"
             /\ StoredValue.val = value

\* C9: when the file cannot be opened, parse_toml fails: it neither walks
\* a document nor returns a dictionary.
C9_OpenFailureFails ==
    ~file.opens =>
       /\ pc \in {"start", "panic"}
       /\ returned = << >>

\* A step of the tokenizer's loop: one token more, which is not empty and
\* is the text between the old offset and the new.
TokenizerStep ==
    /\ pc = "tokenize"
    /\ pc' = "tokenize"
    /\ type_results' # type_results

TokenizerAdvances ==
    TokenizerStep =>
       LET tok == type_results'[Len(type_results')]
       IN  /\ type_results' = Append(type_results, tok)
           /\ Len(tok) > 0
           /\ type_idx' > type_idx
           /\ type_idx' <= Len(value)
           /\ type_idx' - Len(tok) >= type_idx
           /\ tok = SubSeq(value, type_idx' - Len(tok) + 1, type_idx')

\* Every running call of the decoder but the first has the tokens after
\* its caller's tag: a strictly shorter list.
RecursionShrinks ==
    \A n \in 2..Len(calls) :
       /\ Len(calls[n].regex_results) < Len(calls[n - 1].regex_results)
       /\ calls[n].regex_results =
             SubSeq(calls[n - 1].regex_results, calls[n - 1].i + 2,
                    Len(calls[n - 1].regex_results))

\* C10: every match of the tokenizer is not empty and moves the offset
\* forward, every recursive call of the decoder is on a strictly shorter
\* list, and every scan ends: it returns or it fails.
C10_ScanTerminates ==
    /\ [][TokenizerAdvances]_vars
    /\ []RecursionShrinks
    /\ (pc \in {"tokenize", "decode"}) ~> (pc \in {"walk", "panic"})

C10_Witness ==
    /\ pc = "decode"
    /\ Len(calls) >= 3
    /\ Len(type_results) >= 10
    /\ type_idx > 0

====
